---- MODULE Spec2Model ----
(***************************************************************************)
(* Model of pythonfixerv1.py: the Streamlit script that uploads a Python   *)
(* script, runs it, classifies the log, asks a completion backend for a    *)
(* fix, writes the fix to a versioned path and runs it again.              *)
(*                                                                         *)
(* Every browser session executes the script top to bottom in its own      *)
(* thread of one server process; all sessions share the working directory  *)
(* and therefore the two fixed paths temp_uploaded_script.py and           *)
(* agent_log.txt.  Text is modelled as sequences of one-character strings. *)
(***************************************************************************)
EXTENDS Integers, Sequences, FiniteSets

\* ---------------------------------------------------------------- bounds
\* Total number of uploads (script executions past the uploader) explored.
MaxUploads == 3
\* Uploads explored when the script runs of two sessions overlap.
MaxOverlapUploads == 2
\* Number of tokens a backend response is built from (fence-cleanup check).
MaxTok == 5

Sessions == {1, 2}

\* ------------------------------------------------------------------ text
UpperCase == <<"A","B","C","D","E","F","G","H","I","J","K","L","M",
               "N","O","P","Q","R","S","T","U","V","W","X","Y","Z">>
LowerCase == <<"a","b","c","d","e","f","g","h","i","j","k","l","m",
               "n","o","p","q","r","s","t","u","v","w","x","y","z">>

\* str.lower() on one character
lowerChar(c) ==
    IF \E i \in 1..26 : UpperCase[i] = c
    THEN LowerCase[CHOOSE i \in 1..26 : UpperCase[i] = c]
    ELSE c

\* str.lower()
lower(s) == [i \in 1..Len(s) |-> lowerChar(s[i])]

\* s.startswith(p)
startswith(s, p) == Len(p) <= Len(s) /\ SubSeq(s, 1, Len(p)) = p

\* s.endswith(p)
endswith(s, p) == Len(p) <= Len(s) /\ SubSeq(s, Len(s) - Len(p) + 1, Len(s)) = p

\* p in s  (substring test)
contains(s, p) ==
    \E i \in 1..(Len(s) - Len(p) + 1) : SubSeq(s, i, i + Len(p) - 1) = p

\* the characters str.strip() removes (those that occur in the model)
Whitespace == {" ", "\n"}

\* str.strip()
strip(s) ==
    IF \A i \in 1..Len(s) : s[i] \in Whitespace
    THEN << >>
    ELSE LET a == CHOOSE i \in 1..Len(s) :
                      s[i] \notin Whitespace /\ \A j \in 1..(i-1) : s[j] \in Whitespace
             b == CHOOSE i \in 1..Len(s) :
                      s[i] \notin Whitespace /\ \A j \in (i+1)..Len(s) : s[j] \in Whitespace
         IN  SubSeq(s, a, b)

\* the literals of the source
ERROR_MARKER == <<"e","r","r","o","r">>
TRACEBACK_MARKER == <<"t","r","a","c","e","b","a","c","k">>
\* the backquote character (chr 96), which a TLA+ string cannot hold
BQ == "bq"
FENCE == <<BQ, BQ, BQ>>
FENCE_PYTHON == <<BQ, BQ, BQ, "p","y","t","h","o","n">>


\* ----------------------------------------------------------------- files
\* Paths of the shared working directory, numbered: 0 is agent_log.txt,
\* 1 is temp_uploaded_script.py and i >= 2 is temp_uploaded_script_v<i>.py.
log_path == 0
script_path == 1
\* the empty string fix_broken_script returns on failure
NoPath == -1
\* largest version index the bounded runs can create (one per upload)
MaxPath == MaxUploads + MaxOverlapUploads + 1
Paths == 0..MaxPath

\* f"{base}_v{i}{ext}"
versioned_path(i) == i

\* A file's content.  uid is the identity of the data: the number of the
\* upload the bytes came from (for a log: of the upload whose run wrote it).
NoFile == [kind |-> "none", uid |-> 0, utf8 |-> TRUE, text |-> << >>]

\* os.path.exists
exists(fsys, path) == fsys[path] # NoFile

\* ------------------------------------------------------- sample data
\* Outputs a child process may leave in the log.
LOG_OK == <<"o","k">>
LOG_ERROR == <<"x"," ","E","r","r","o","r",":"," ","x">>
LOG_TRACEBACK == <<"T","R","A","C","E","B","A","C","K"," ","x">>
SampleLogs == {LOG_OK, LOG_ERROR, LOG_TRACEBACK}
\* f"Error running script: {e}"
LAUNCH_ERROR_LOG == <<"E","r","r","o","r"," ","r","u","n","n","i","n","g">>
\* what the interpreter prints when the script file is missing
CANT_OPEN_LOG == <<"c","a","n","t"," ","o","p","e","n"," ","f","i","l","e">>

\* How a child process can end: sys.exit(n), death by a signal, or not
\* within the 60 seconds; "nolaunch" is Popen (or opening the log) raising.
ExitArgs == {0, 1, 0 - 1}
Signals == {1}
ChildOutcomes ==
    [how : {"exit"}, code : ExitArgs] \cup [how : {"signal"}, code : Signals]
        \cup {[how |-> "timeout", code |-> 0], [how |-> "nolaunch", code |-> 0]}

\* Popen.returncode of a child that ended by itself (POSIX): the exit status
\* is the low byte of the argument of exit, a death by signal N gives -N.
returncode(c) == IF c.how = "signal" THEN 0 - c.code ELSE c.code % 256

\* Backend responses used by the pipeline runs.
RESPONSE_FENCED == FENCE_PYTHON \o <<"\n","x","\n">> \o FENCE
RESPONSE_PLAIN == <<"x","\n">>
SampleResponses == {RESPONSE_FENCED, RESPONSE_PLAIN}

\* ------------------------------------------------------ pure functions
\* Mutant: the content is searched without lower().
monitor_log_for_errors_no_lower(file) ==
    IF file = NoFile
    THEN FALSE
    ELSE contains(file.text, ERROR_MARKER) \/ contains(file.text, TRACEBACK_MARKER)

\* monitor_log_for_errors, given the content at log_path
monitor_log_for_errors(file) ==
    IF file = NoFile
    THEN FALSE
    ELSE LET content == lower(file.text)
         IN  contains(content, ERROR_MARKER) \/ contains(content, TRACEBACK_MARKER)

\* the while loop of backup_and_version_script, from index i
RECURSIVE version_search(_, _)
version_search(fsys, i) ==
    IF ~exists(fsys, versioned_path(i)) THEN i ELSE version_search(fsys, i + 1)

\* Mutant: no search for a free index, _v2 is always taken.
backup_no_search(fsys, path) ==
    IF ~exists(fsys, path)
    THEN [raised |-> TRUE, versioned_path |-> NoPath, fs |-> fsys]
    ELSE [raised |-> FALSE, versioned_path |-> versioned_path(2),
          fs |-> [fsys EXCEPT ![versioned_path(2)] = fsys[path]]]

\* backup_and_version_script: the path returned and the directory after the
\* copy; shutil.copy raises when the source file is missing.
backup_and_version_script(fsys, path) ==
    LET i == version_search(fsys, 2)
    IN  IF ~exists(fsys, path)
        THEN [raised |-> TRUE, versioned_path |-> NoPath, fs |-> fsys]
        ELSE [raised |-> FALSE, versioned_path |-> versioned_path(i),
              fs |-> [fsys EXCEPT ![versioned_path(i)] = fsys[path]]]

\* result.final_output of the agent path (taken as it is)
agent_output(resp) == resp

\* response.choices[0].message.content.strip() of the direct path
direct_output(resp) == strip(resp)

\* Mutant: the bare fence is tested before the fence with the language tag.
cleanup_markdown_bare_first(fixed_code) ==
    LET a == IF startswith(fixed_code, FENCE)
             THEN SubSeq(fixed_code, 4, Len(fixed_code))
             ELSE IF startswith(fixed_code, FENCE_PYTHON)
                  THEN SubSeq(fixed_code, 10, Len(fixed_code))
                  ELSE fixed_code
    IN  IF endswith(a, FENCE) THEN SubSeq(a, 1, Len(a) - 3) ELSE a

\* "Clean up markdown if present"
cleanup_markdown(fixed_code) ==
    LET a == IF startswith(fixed_code, FENCE_PYTHON)
             THEN SubSeq(fixed_code, 10, Len(fixed_code))
             ELSE IF startswith(fixed_code, FENCE)
                  THEN SubSeq(fixed_code, 4, Len(fixed_code))
                  ELSE fixed_code
    IN  IF endswith(a, FENCE) THEN SubSeq(a, 1, Len(a) - 3) ELSE a

\* f.write(fixed_code.strip())
written_text(fixed_code) == strip(fixed_code)

\* Mutant: the timeout is not told apart, the child's status is returned.
run_script_status_no_timeout(c) ==
    IF c.how = "nolaunch" THEN 0 - 1 ELSE returncode(c)

\* the value run_script returns for a child outcome
run_script_status(c) ==
    IF c.how = "timeout" THEN 0 - 1
    ELSE IF c.how = "nolaunch" THEN 0 - 1
    ELSE returncode(c)

\* run_script(path, log_path) by upload u with child outcome c and output
\* out: the log is replaced, the status returned.  A missing script file
\* makes the interpreter exit with status 2.
run_script(fsys, path, c, out, u) ==
    LET actual == IF c.how # "nolaunch" /\ ~exists(fsys, path)
                  THEN [how |-> "exit", code |-> 2] ELSE c
        text == IF c.how = "nolaunch" THEN LAUNCH_ERROR_LOG
                ELSE IF ~exists(fsys, path) THEN CANT_OPEN_LOG ELSE out
    IN  [status |-> run_script_status(actual),
         child |-> actual,
         fs |-> [fsys EXCEPT ![log_path] =
                    [kind |-> "log", uid |-> u, utf8 |-> TRUE, text |-> text]]]


\* ----------------------------------------------------------------- state
VARIABLES
    AGENTS_SUCCESS,   \* module level: whether "from agents import ..." worked
    connected,        \* the browser sessions connected to the server
    fs,               \* the working directory: path -> content
    nUploads,         \* uploads so far (numbers the uploads)
    returned,         \* history: version indices backup_and_version_script returned
    pc,               \* per session: position in the script
    uid,              \* per session: number of its upload
    agent,            \* per session: what create_agent returned
    run_result,       \* per session: status of the first run
    child,            \* per session: how the child of its last run ended
    executed,         \* per session: uid of the content its first run executed
    log_lines,        \* per session: the log read after the first run
    log_content,      \* per session: the log text passed to fix_broken_script
    original_code,    \* per session: the script text fix_broken_script read
    fixed_code,       \* per session: the response text being processed
    new_script_path,  \* per session: path returned by backup_and_version_script
    fixed_path,       \* per session: result of fix_broken_script
    result,           \* per session: status of the second run
    outcome,          \* per session: what the page reported
    fixCalls,         \* per session: calls of fix_broken_script
    runCalls,         \* per session: calls of run_script
    directCalls,      \* per session: chat.completions.create requests issued
    agentFailed,      \* per session: Runner.run raised
    deleteFailed,     \* per session: os.remove raised in the cleanup
    response,         \* fence check: the backend response
    via,              \* fence check: the path that handled it
    written           \* fence check: the text written to the new script

globals == <<AGENTS_SUCCESS, connected>>
fenceVars == <<response, via, written>>
\* what the page reported and the call counts of a script run
report == <<outcome, fixCalls, runCalls, directCalls, agentFailed>>
\* the local variables of fix_broken_script
fixLocals == <<original_code, fixed_code, new_script_path>>
\* the variables of the script body
runLocals == <<agent, run_result, child, executed, log_lines, log_content,
               fixed_path, result>>
vars == <<AGENTS_SUCCESS, connected, fs, nUploads, returned, pc, uid, agent,
          run_result, child, executed, log_lines, log_content, original_code,
          fixed_code, new_script_path, fixed_path, result, outcome, fixCalls,
          runCalls, directCalls, agentFailed, deleteFailed, response, via,
          written>>

NoChild == [how |-> "none", code |-> 0]
\* positions at which no script run of the session is in progress
Resting == {"idle", "done", "stopped", "crashed"}

\* the state of a server that has just started, in an empty directory
InitPipeline ==
    /\ AGENTS_SUCCESS \in BOOLEAN
    /\ fs = [p \in Paths |-> NoFile]
    /\ nUploads = 0
    /\ returned = << >>
    /\ pc = [s \in Sessions |-> "idle"]
    /\ uid = [s \in Sessions |-> 0]
    /\ agent = [s \in Sessions |-> "none"]
    /\ run_result = [s \in Sessions |-> 0]
    /\ child = [s \in Sessions |-> NoChild]
    /\ executed = [s \in Sessions |-> 0]
    /\ log_lines = [s \in Sessions |-> NoFile]
    /\ log_content = [s \in Sessions |-> NoFile]
    /\ original_code = [s \in Sessions |-> NoFile]
    /\ fixed_code = [s \in Sessions |-> << >>]
    /\ new_script_path = [s \in Sessions |-> NoPath]
    /\ fixed_path = [s \in Sessions |-> NoPath]
    /\ result = [s \in Sessions |-> 0]
    /\ outcome = [s \in Sessions |-> "none"]
    /\ fixCalls = [s \in Sessions |-> 0]
    /\ runCalls = [s \in Sessions |-> 0]
    /\ directCalls = [s \in Sessions |-> 0]
    /\ agentFailed = [s \in Sessions |-> FALSE]
    /\ deleteFailed = [s \in Sessions |-> FALSE]

\* one browser session: its script runs follow one another
Init ==
    /\ InitPipeline
    /\ connected = {1}
    /\ response = << >> /\ via = "off" /\ written = << >>

\* two browser sessions, whose script runs overlap
InitConc ==
    /\ InitPipeline
    /\ connected = Sessions
    /\ response = << >> /\ via = "off" /\ written = << >>

\* "from openai import AsyncOpenAI" is executed only if not AGENTS_SUCCESS
AsyncOpenAI_imported == ~AGENTS_SUCCESS

\* hasattr(agent, 'name')
hasattr_name(a) == a = "Agent"

\* create_agent: Agent(...) when the framework loaded, falling back to
\* AsyncOpenAI(...), a name that is bound only if it was imported.
create_agent(agent_ok, client_ok) ==
    LET client == IF AsyncOpenAI_imported /\ client_ok THEN "AsyncOpenAI" ELSE "raise"
    IN  IF AGENTS_SUCCESS
        THEN IF agent_ok THEN "Agent" ELSE client
        ELSE client

\* the number of uploads the bounded runs explore
UploadLimit == IF Cardinality(connected) > 1 THEN MaxOverlapUploads ELSE MaxUploads

\* fix_broken_script returns: its local variables are gone.
FixReturns(s) ==
    /\ original_code' = [original_code EXCEPT ![s] = NoFile]
    /\ fixed_code' = [fixed_code EXCEPT ![s] = << >>]
    /\ new_script_path' = [new_script_path EXCEPT ![s] = NoPath]

\* The script run ends at position p: its variables are gone, what it
\* reported stays on the page.
EndRun(s, p) ==
    /\ pc' = [pc EXCEPT ![s] = p]
    /\ agent' = [agent EXCEPT ![s] = "none"]
    /\ run_result' = [run_result EXCEPT ![s] = 0]
    /\ child' = [child EXCEPT ![s] = NoChild]
    /\ executed' = [executed EXCEPT ![s] = 0]
    /\ log_lines' = [log_lines EXCEPT ![s] = NoFile]
    /\ log_content' = [log_content EXCEPT ![s] = NoFile]
    /\ fixed_path' = [fixed_path EXCEPT ![s] = NoPath]
    /\ result' = [result EXCEPT ![s] = 0]

\* ---------------------------------------------------------------- actions
\* The script starts with an uploaded file: it is written to script_path.
Upload(s) ==
    /\ s \in connected
    /\ pc[s] \in Resting
    /\ nUploads < UploadLimit
    /\ \E u \in BOOLEAN :
          fs' = [fs EXCEPT ![script_path] =
                    [kind |-> "upload", uid |-> nUploads + 1, utf8 |-> u, text |-> << >>]]
    /\ nUploads' = nUploads + 1
    /\ uid' = [uid EXCEPT ![s] = nUploads + 1]
    /\ pc' = [pc EXCEPT ![s] = "create"]
    /\ outcome' = [outcome EXCEPT ![s] = "none"]
    /\ fixCalls' = [fixCalls EXCEPT ![s] = 0]
    /\ runCalls' = [runCalls EXCEPT ![s] = 0]
    /\ directCalls' = [directCalls EXCEPT ![s] = 0]
    /\ agentFailed' = [agentFailed EXCEPT ![s] = FALSE]
    /\ deleteFailed' = [deleteFailed EXCEPT ![s] = FALSE]
    /\ UNCHANGED <<globals, returned, runLocals, fixLocals, fenceVars>>

\* The script runs without an upload (no key or no file yet): only the
\* cleanup at its end has an effect.
IdleRerun(s) ==
    /\ s \in connected
    /\ pc[s] \in Resting
    /\ exists(fs, script_path)
    /\ fs' = [fs EXCEPT ![script_path] = NoFile]
    /\ UNCHANGED <<globals, nUploads, returned, pc, uid, runLocals, fixLocals,
                   report, deleteFailed, fenceVars>>

\* agent = create_agent(api_key); on an exception st.error and st.stop(),
\* which ends the script run at once.
CreateAgent(s) ==
    /\ pc[s] = "create"
    /\ \E agent_ok \in BOOLEAN, client_ok \in BOOLEAN :
          LET a == create_agent(agent_ok, client_ok)
          IN  IF a = "raise"
              THEN /\ EndRun(s, "stopped")
                   /\ outcome' = [outcome EXCEPT ![s] = "Stopped"]
              ELSE /\ pc' = [pc EXCEPT ![s] = "run1"]
                   /\ agent' = [agent EXCEPT ![s] = a]
                   /\ UNCHANGED <<run_result, child, executed, log_lines,
                                  log_content, fixed_path, result, outcome>>
    /\ UNCHANGED <<globals, fs, nUploads, returned, uid, fixLocals, fixCalls,
                   runCalls, directCalls, agentFailed, deleteFailed, fenceVars>>

\* run_result = run_script(script_path, log_path), then the log is read
\* for display.
RunFirst(s) ==
    /\ pc[s] = "run1"
    /\ \E c \in ChildOutcomes, out \in SampleLogs :
          LET r == run_script(fs, script_path, c, out, uid[s])
          IN  /\ fs' = r.fs
              /\ run_result' = [run_result EXCEPT ![s] = r.status]
              /\ child' = [child EXCEPT ![s] = r.child]
              /\ log_lines' = [log_lines EXCEPT ![s] = r.fs[log_path]]
    /\ executed' = [executed EXCEPT ![s] = fs[script_path].uid]
    /\ runCalls' = [runCalls EXCEPT ![s] = runCalls[s] + 1]
    /\ pc' = [pc EXCEPT ![s] = "classify"]
    /\ UNCHANGED <<globals, nUploads, returned, uid, agent, log_content,
                   fixed_path, result, fixLocals, outcome, fixCalls, directCalls,
                   agentFailed, deleteFailed, fenceVars>>

\* if run_result == 0 and not monitor_log_for_errors(log_path): success;
\* else the log is read again and fix_broken_script is called.
Classify(s) ==
    /\ pc[s] = "classify"
    /\ IF run_result[s] = 0 /\ ~monitor_log_for_errors(fs[log_path])
       THEN /\ outcome' = [outcome EXCEPT ![s] = "Success"]
            /\ pc' = [pc EXCEPT ![s] = "cleanup"]
            /\ UNCHANGED <<log_content, fixCalls>>
       ELSE /\ log_content' = [log_content EXCEPT ![s] = fs[log_path]]
            /\ fixCalls' = [fixCalls EXCEPT ![s] = fixCalls[s] + 1]
            /\ pc' = [pc EXCEPT ![s] = "fix_read"]
            /\ UNCHANGED outcome
    /\ UNCHANGED <<globals, fs, nUploads, returned, uid, agent, run_result, child,
                   executed, log_lines, fixed_path, result, fixLocals, runCalls,
                   directCalls, agentFailed, deleteFailed, fenceVars>>

\* fix_broken_script, before its try block: the script text is read and
\* the prompt built.  A missing or undecodable file raises, and nothing here
\* catches it: the exception leaves fix_broken_script and ends the script
\* run.  Nothing reads run_result, log_lines or the log text after this
\* point, and the model forgets them here.
FixRead(s) ==
    /\ pc[s] = "fix_read"
    /\ IF ~exists(fs, script_path) \/ ~fs[script_path].utf8
       THEN /\ EndRun(s, "crashed")
            /\ outcome' = [outcome EXCEPT ![s] = "Crashed"]
            /\ UNCHANGED original_code
       ELSE /\ original_code' = [original_code EXCEPT ![s] = fs[script_path]]
            /\ pc' = [pc EXCEPT ![s] = "fix_request"]
            /\ run_result' = [run_result EXCEPT ![s] = 0]
            /\ child' = [child EXCEPT ![s] = NoChild]
            /\ executed' = [executed EXCEPT ![s] = 0]
            /\ log_lines' = [log_lines EXCEPT ![s] = NoFile]
            /\ log_content' = [log_content EXCEPT ![s] = NoFile]
            /\ UNCHANGED <<agent, fixed_path, result, outcome>>
    /\ UNCHANGED <<globals, fs, nUploads, returned, uid, fixed_code,
                   new_script_path, fixCalls, runCalls, directCalls, agentFailed,
                   deleteFailed, fenceVars>>

\* The request returned text: on to the fence cleanup.
GotResponse(s, text, direct, failed) ==
    /\ fixed_code' = [fixed_code EXCEPT ![s] = text]
    /\ directCalls' = [directCalls EXCEPT ![s] = directCalls[s] + direct]
    /\ agentFailed' = [agentFailed EXCEPT ![s] = failed]
    /\ pc' = [pc EXCEPT ![s] = "fix_backup"]
    /\ UNCHANGED <<original_code, new_script_path>>

\* An exception reached "except Exception": st.error and return "".
FixRaised(s, direct, failed) ==
    /\ FixReturns(s)
    /\ directCalls' = [directCalls EXCEPT ![s] = directCalls[s] + direct]
    /\ agentFailed' = [agentFailed EXCEPT ![s] = failed]
    /\ pc' = [pc EXCEPT ![s] = "after_fix"]

\* The fallback in the handler of the agent path's exception:
\* AsyncOpenAI(...) and a chat.completions.create request.
DirectFallback(s) ==
    IF AsyncOpenAI_imported
    THEN \/ \E resp \in SampleResponses : GotResponse(s, direct_output(resp), 1, TRUE)
         \/ FixRaised(s, 1, TRUE)
    ELSE FixRaised(s, 0, TRUE)

\* fix_broken_script, the request: Runner.run for an agent, with the
\* fallback when it raises, else chat.completions.create on the client.
FixRequest(s) ==
    /\ pc[s] = "fix_request"
    /\ IF AGENTS_SUCCESS /\ hasattr_name(agent[s])
       THEN \/ \E resp \in SampleResponses :
                  GotResponse(s, agent_output(resp), 0, FALSE)
            \/ DirectFallback(s)
       ELSE \/ \E resp \in SampleResponses :
                  GotResponse(s, direct_output(resp), 1, FALSE)
            \/ FixRaised(s, 1, FALSE)
    /\ UNCHANGED <<globals, fs, nUploads, returned, uid, runLocals, outcome,
                   fixCalls, runCalls, deleteFailed, fenceVars>>

\* fix_broken_script: the fences are removed and
\* new_script_path = backup_and_version_script(script_path).
FixBackup(s) ==
    /\ pc[s] = "fix_backup"
    /\ \E i \in 2..MaxPath : ~exists(fs, versioned_path(i))
    /\ LET b == backup_and_version_script(fs, script_path)
       IN  IF b.raised
           THEN /\ FixReturns(s)
                /\ pc' = [pc EXCEPT ![s] = "after_fix"]
                /\ UNCHANGED <<fs, returned>>
           ELSE /\ fs' = b.fs
                /\ returned' = Append(returned, b.versioned_path)
                /\ new_script_path' = [new_script_path EXCEPT ![s] = b.versioned_path]
                /\ fixed_code' = [fixed_code EXCEPT ![s] = cleanup_markdown(fixed_code[s])]
                /\ pc' = [pc EXCEPT ![s] = "fix_write"]
                /\ UNCHANGED original_code
    /\ UNCHANGED <<globals, nUploads, uid, runLocals, report, deleteFailed,
                   fenceVars>>

\* fix_broken_script: open(new_script_path, 'w'), f.write(fixed_code.strip())
\* and return new_script_path; if the open raises, return "".
FixWrite(s) ==
    /\ pc[s] = "fix_write"
    /\ \/ /\ fs' = [fs EXCEPT ![new_script_path[s]] =
                       [kind |-> "fixed", uid |-> uid[s], utf8 |-> TRUE,
                        text |-> written_text(fixed_code[s])]]
          /\ fixed_path' = [fixed_path EXCEPT ![s] = new_script_path[s]]
       \/ /\ fixed_path' = [fixed_path EXCEPT ![s] = NoPath]
          /\ UNCHANGED fs
    /\ FixReturns(s)
    /\ pc' = [pc EXCEPT ![s] = "after_fix"]
    /\ UNCHANGED <<globals, nUploads, returned, uid, agent, run_result, child,
                   executed, log_lines, log_content, result, report,
                   deleteFailed, fenceVars>>

\* Mutant: the second run is made whatever fix_broken_script returned.
AfterFix_always_rerun(s) ==
    /\ pc[s] = "after_fix"
    /\ pc' = [pc EXCEPT ![s] = "run2"]
    /\ UNCHANGED <<globals, fs, nUploads, returned, uid, runLocals, fixLocals,
                   report, deleteFailed, fenceVars>>

\* if fixed_path and os.path.exists(fixed_path): show the fix and go on to
\* the second run; else "Failed to generate fixed script".
AfterFix(s) ==
    /\ pc[s] = "after_fix"
    /\ IF fixed_path[s] # NoPath /\ exists(fs, fixed_path[s])
       THEN /\ pc' = [pc EXCEPT ![s] = "run2"]
            /\ UNCHANGED outcome
       ELSE /\ pc' = [pc EXCEPT ![s] = "cleanup"]
            /\ outcome' = [outcome EXCEPT ![s] = "RequestFailed"]
    /\ UNCHANGED <<globals, fs, nUploads, returned, uid, runLocals, fixLocals,
                   fixCalls, runCalls, directCalls, agentFailed, deleteFailed,
                   fenceVars>>

\* result = run_script(fixed_path, log_path) and its classification.
RunFixed(s) ==
    /\ pc[s] = "run2"
    /\ \E c \in ChildOutcomes, out \in SampleLogs :
          LET r == run_script(fs, fixed_path[s], c, out, uid[s])
          IN  /\ fs' = r.fs
              /\ result' = [result EXCEPT ![s] = r.status]
              /\ child' = [child EXCEPT ![s] = r.child]
              /\ outcome' = [outcome EXCEPT ![s] =
                                IF r.status = 0 /\ ~monitor_log_for_errors(r.fs[log_path])
                                THEN "FixedSuccess" ELSE "FixedFailed"]
    /\ runCalls' = [runCalls EXCEPT ![s] = runCalls[s] + 1]
    /\ pc' = [pc EXCEPT ![s] = "cleanup"]
    /\ UNCHANGED <<globals, nUploads, returned, uid, agent, run_result, executed,
                   log_lines, log_content, fixed_path, fixLocals, fixCalls,
                   directCalls, agentFailed, deleteFailed, fenceVars>>

\* The end of the script: os.remove("temp_uploaded_script.py") if it
\* exists, an exception of the removal being swallowed.
Cleanup(s) ==
    /\ pc[s] = "cleanup"
    /\ IF exists(fs, script_path)
       THEN \/ /\ fs' = [fs EXCEPT ![script_path] = NoFile]
               /\ UNCHANGED deleteFailed
            \/ /\ deleteFailed' = [deleteFailed EXCEPT ![s] = TRUE]
               /\ UNCHANGED fs
       ELSE UNCHANGED <<fs, deleteFailed>>
    /\ EndRun(s, "done")
    /\ UNCHANGED <<globals, nUploads, returned, uid, fixLocals, report, fenceVars>>

Next ==
    \E s \in Sessions :
        \/ Upload(s)
        \/ IdleRerun(s)
        \/ CreateAgent(s)
        \/ RunFirst(s)
        \/ Classify(s)
        \/ FixRead(s)
        \/ FixRequest(s)
        \/ FixBackup(s)
        \/ FixWrite(s)
        \/ AfterFix(s)
        \/ RunFixed(s)
        \/ Cleanup(s)

\* one session, its script runs one after the other
Spec == Init /\ [][Next]_vars

\* two sessions with overlapping script runs
SpecConc == InitConc /\ [][Next]_vars


\* ------------------------------------------------- the fence cleanup alone
\* Backend responses: every text of at most MaxTok of these pieces.
Tokens == {FENCE_PYTHON, FENCE, <<"\n">>, <<" ">>, <<"x">>}

RECURSIVE concat(_)
concat(ts) == IF ts = << >> THEN << >> ELSE Head(ts) \o concat(Tail(ts))

Responses == {concat(ts) : ts \in UNION {[1..n -> Tokens] : n \in 0..MaxTok}}

\* fix_broken_script is about to process some backend response
InitFence ==
    /\ InitPipeline
    /\ connected = {}
    /\ response \in Responses
    /\ via = "start"
    /\ written = << >>

\* Runner.run returned the response: final_output, fence cleanup, write.
\* The agent path is taken exactly if the framework loaded.
FenceAgent ==
    /\ via = "start"
    /\ AGENTS_SUCCESS
    /\ via' = "agent"
    /\ written' = written_text(cleanup_markdown(agent_output(response)))
    /\ UNCHANGED <<globals, fs, nUploads, returned, pc, uid, runLocals, fixLocals,
                   report, deleteFailed, response>>

\* chat.completions.create returned the response: content.strip(), fence
\* cleanup, write.
FenceDirect ==
    /\ via = "start"
    /\ ~AGENTS_SUCCESS
    /\ via' = "direct"
    /\ written' = written_text(cleanup_markdown(direct_output(response)))
    /\ UNCHANGED <<globals, fs, nUploads, returned, pc, uid, runLocals, fixLocals,
                   report, deleteFailed, response>>

NextFence == FenceAgent \/ FenceDirect

SpecFence == InitFence /\ [][NextFence]_vars


\* =================================================================== claims
\* positions after fix_broken_script has returned
FixReturned == {"after_fix", "run2", "cleanup", "done"}

\* C1: when the agent framework loaded and Runner.run raised inside
\* fix_broken_script, a direct chat-completion request has been issued by
\* the time fix_broken_script has returned.
C1_FallbackAttempted ==
    \A s \in Sessions :
        (AGENTS_SUCCESS /\ agentFailed[s] /\ pc[s] \in FixReturned)
            => directCalls[s] >= 1

\* C2: after a successful fix request, a versioned file with an index below
\* the fixed script's still holds the original, never-fixed upload.
C2_BackupKept ==
    \A s \in Sessions :
        (pc[s] \in {"after_fix", "run2"} /\ fixed_path[s] # NoPath)
            => \E i \in 2..MaxPath :
                  /\ i < fixed_path[s]
                  /\ fs[i].kind = "upload"
                  /\ fs[i].uid = uid[s]

\* some marker occurs in the text, letter case ignored
HasMarker(text) ==
    \E m \in {ERROR_MARKER, TRACEBACK_MARKER} :
        \E i \in 1..(Len(text) - Len(m) + 1) :
            \A k \in 1..Len(m) : lowerChar(text[i + k - 1]) = m[k]

\* the first run returned 0 and its log has no marker
CleanRun(s) == run_result[s] = 0 /\ ~HasMarker(log_lines[s].text)

\* C3: after the first run, success is reported, with no call of the fix
\* requester, exactly when run_script returned 0 and the log holds neither
\* "error" nor "traceback" in any letter case; otherwise (non-zero status,
\* timeout, marker) the fix requester is called.
C3_Classification ==
    \A s \in Sessions :
        /\ (pc[s] = "cleanup" /\ outcome[s] = "Success")
              => (CleanRun(s) /\ fixCalls[s] = 0 /\ child[s].how # "timeout")
        /\ pc[s] = "fix_read" => (~CleanRun(s) /\ fixCalls[s] = 1)
        /\ outcome[s] = "Success" => fixCalls[s] = 0

\* a clean first run has been reported as a success
C3_Witness ==
    \E s \in Sessions :
        pc[s] = "cleanup" /\ outcome[s] = "Success" /\ log_lines[s].text = LOG_OK

\* the status the claim expects of run_script for a child outcome; own is
\* whether the status must differ from the timeout status when the child
\* ended by itself
StatusAsClaimed(c, status, distinct) ==
    /\ c.how = "timeout" => status = 0 - 1
    /\ c.how = "exit" => status = c.code % 256
    /\ c.how = "signal" => status = 0 - c.code
    /\ (distinct /\ c.how \in {"exit", "signal"}) => status # 0 - 1

\* the runs whose status and child are in the state
AfterFirstRun(s) == pc[s] = "classify"
AfterSecondRun(s) == pc[s] = "cleanup" /\ outcome[s] \in {"FixedSuccess", "FixedFailed"}

\* C4 as stated: a timeout gives the status -1, and a child that ended by
\* itself gives its real status, which is never -1.
C4_Original ==
    \A s \in Sessions :
        /\ AfterFirstRun(s) => StatusAsClaimed(child[s], run_result[s], TRUE)
        /\ AfterSecondRun(s) => StatusAsClaimed(child[s], result[s], TRUE)

\* C4 amended: a timeout gives the status -1; a child that ended by itself
\* gives its real status, which is in 0..255 and so not -1 when the child
\* exited, and is -N when signal N killed it (-1 for signal 1).
C4_Amended ==
    \A s \in Sessions :
        /\ AfterFirstRun(s) =>
              /\ StatusAsClaimed(child[s], run_result[s], FALSE)
              /\ child[s].how = "exit" => run_result[s] \in 0..255
        /\ AfterSecondRun(s) =>
              /\ StatusAsClaimed(child[s], result[s], FALSE)
              /\ child[s].how = "exit" => result[s] \in 0..255

\* a first run has timed out
C4_Witness ==
    \E s \in Sessions :
        AfterFirstRun(s) /\ child[s].how = "timeout" /\ run_result[s] = 0 - 1

\* a call of backup_and_version_script has just returned
BackupReturned == Len(returned') = Len(returned) + 1

\* C5: the calls of backup_and_version_script on script_path return the
\* indices 2, 3, 4, ... in this order; each call returns a path that did
\* not exist, copies the script to it and changes no other file.
C5_Versions ==
    /\ [](\A k \in 1..Len(returned) : returned[k] = k + 1)
    /\ [][BackupReturned =>
            LET p == returned'[Len(returned')]
            IN  /\ ~exists(fs, p)
                /\ fs'[p] = fs[script_path]
                /\ exists(fs', p)
                /\ \A q \in Paths \ {p} : fs'[q] = fs[q]]_vars

\* three calls have returned
C5_Witness == Len(returned) >= 3

\* C6: no exception leaves fix_broken_script: the script run is never
\* ended by one.
C6_NoPropagation == \A s \in Sessions : pc[s] # "crashed"

\* C7: per script run, fix_broken_script is called at most once and
\* run_script at most twice; the second run is made only with a non-empty
\* fixed_path of an existing file; a failed fix request leaves it at one
\* run, and a failed second run is followed by no call at all.
C7_SingleShot ==
    \A s \in Sessions :
        /\ fixCalls[s] <= 1
        /\ runCalls[s] <= 2
        /\ pc[s] = "run2" =>
              (fixed_path[s] # NoPath /\ exists(fs, fixed_path[s]) /\ fixCalls[s] = 1)
        /\ runCalls[s] = 2 => outcome[s] \in {"FixedSuccess", "FixedFailed"}
        /\ outcome[s] = "RequestFailed" =>
              (runCalls[s] = 1 /\ fixCalls[s] = 1 /\ pc[s] \in {"cleanup", "done"})
        /\ outcome[s] = "FixedFailed" =>
              (runCalls[s] = 2 /\ fixCalls[s] = 1 /\ pc[s] \in {"cleanup", "done"})

\* a script run has ended after a failed second run
C7_Witness == \E s \in Sessions : outcome[s] = "FixedFailed" /\ pc[s] = "done"

\* the length of the fence a response starts with
Lead(r) == IF startswith(r, FENCE_PYTHON) THEN 9 ELSE 3

\* the response starts with a fence and ends with a closing fence of its own
Fenced(r) == startswith(r, FENCE) /\ endswith(r, FENCE) /\ Len(r) >= Lead(r) + 3

\* the text between the two fences
Between(r) == SubSeq(r, Lead(r) + 1, Len(r) - 3)

\* the response has been processed
Processed == via \in {"agent", "direct"}

\* C8 as stated: a fenced response is written as the trimmed text between
\* the fences, with no fence at either end; a response without a fence is
\* written unchanged.
C8_Original ==
    Processed =>
        /\ Fenced(response) =>
              /\ written = strip(Between(response))
              /\ ~startswith(written, FENCE)
              /\ ~endswith(written, FENCE)
        /\ ~contains(response, FENCE) => written = response

\* C8 amended: a fenced response is written as the trimmed text between
\* its leading and its closing fence; a response without a fence is written
\* with its leading and trailing whitespace trimmed.
C8_Amended ==
    Processed =>
        /\ Fenced(response) => written = strip(Between(response))
        /\ ~contains(response, FENCE) => written = strip(response)

\* the example of the claim has been processed
C8_Witness ==
    Processed /\ response = RESPONSE_FENCED /\ written = <<"x">>

\* C9: when a script run has ended and no deletion failed, neither the
\* upload file nor the log file exists.
C9_FilesGone ==
    \A s \in Sessions :
        (pc[s] \in {"done", "stopped"} /\ ~deleteFailed[s])
            => (~exists(fs, script_path) /\ ~exists(fs, log_path))

\* C10: a session finds its own upload at script_path from the upload to
\* the reads of it, executes its own upload, classifies the log of its own
\* run and sends its own source text for fixing.
C10_OwnData ==
    \A s \in Sessions :
        /\ pc[s] \in {"create", "run1"} => fs[script_path].uid = uid[s]
        /\ pc[s] = "classify" => (executed[s] = uid[s] /\ fs[log_path].uid = uid[s])
        /\ pc[s] = "fix_read" => log_content[s].uid = uid[s]
        /\ pc[s] = "fix_request" => original_code[s].uid = uid[s]

====
